---- MODULE Spec2Model ----
\* PosixTimer (src/posixtimer.py): a ctypes wrapper around the POSIX per-process
\* timers of librt, with SIGEV_THREAD notification routed to the Python object
\* through the raw address of the object.
\*
\* Time is counted in ticks of half a second: every duration of the model is a
\* multiple of 0.5 s, which binary floating point represents exactly, so the
\* float forms of set/get are modelled without rounding error.
EXTENDS Integers, FiniteSets, Sequences, TLC

\* ---------------------------------------------------------------- bounds
MaxNow == 1          \* ticks the clock advances in a behaviour
MaxTicks == 2        \* largest value a caller arms, in ticks
MaxInflight == 1     \* notification threads in flight per timer
MaxExplicitDel == 2  \* explicit __del__() calls per object
MaxCb == 2           \* callback() invocations counted per object
MaxWait == 7         \* ticks the clock advances while the caller only waits

Objs == {1, 2}       \* PosixTimer objects, numbered in order of construction
Handles == {1, 2}    \* values a timer_t can take besides NULL
Addrs == {1, 2}      \* addresses a PosixTimer object can be allocated at

\* ---------------------------------------------------------------- constants
NULL == 0
TIMER_ABSTIME == 1
CLOCK_MONOTONIC == 1
CLOCK_REALTIME_ALARM == 8
CLOCK_TAI == 11
NSEC_PER_SEC == 1000000000
TickNs == NSEC_PER_SEC \div 2

\* clock ids the module enumerates; 10 is a clock id the kernel rejects
ValidClock(c) == c \in (0..9) \cup {CLOCK_TAI}
AlarmClock(c) == c \in {CLOCK_REALTIME_ALARM, CLOCK_REALTIME_ALARM + 1}
ClockInputs == {CLOCK_MONOTONIC, CLOCK_REALTIME_ALARM, 10}

\* ---------------------------------------------------------------- durations
\* _Struct_timespec as <<tv_sec, tv_nsec>>
ZeroTs == <<0, 0>>
ValidTs(ts) == ts[1] >= 0 /\ ts[2] >= 0 /\ ts[2] < NSEC_PER_SEC
ToTicks(ts) == ts[1] * 2 + ts[2] \div TickNs
ToTimespec(t) == <<t \div 2, (t % 2) * TickNs>>

\* _Struct_itimerspec
ZeroSpec == [it_interval |-> ZeroTs, it_value |-> ZeroTs]

\* A Python float that is a multiple of 0.5 is written as its number of halves.
\* int() truncates toward zero.
TruncDiv(a, b) == IF a >= 0 THEN a \div b ELSE -((-a) \div b)
_second_nsec_to_float(sec_nsec) == sec_nsec[1] * 2 + TruncDiv(sec_nsec[2], TickNs)
_float_to_second_nsec(value) ==
    LET sec == TruncDiv(value, 2)
    IN  <<sec, (value - sec * 2) * TickNs>>

\* ---------------------------------------------------------------- state
VARIABLES
    objState,   \* per object: "unborn", "alive", "failed" (timer_create raised), "freed"
    timerid,    \* per object: self.timerid, NULL or a handle
    addr,       \* per object: its address, the sigev_value.sival_ptr of its timer
    explDel,    \* per object: explicit __del__() calls made so far
    delCount,   \* per object: timer_delete calls its __del__ has issued
    cbCount,    \* per object: callback() invocations on it
    kt,         \* per handle: the native timer behind it
    inflight,   \* per object: notification threads spawned for its timer, not yet run
    now,        \* the clock, in ticks
    crashed,    \* the process died
    hist,       \* the call of the public interface the last step made, and its outcome
    log         \* the waiting caller's record of its last set, see NextWait

vars == <<objState, timerid, addr, explDel, delCount, cbCount, kt, inflight, now,
          crashed, hist, log>>

\* ---------------------------------------------------------------- native timers
DeadTimer ==
    [live |-> FALSE, src |-> 0, token |-> 0, armed |-> FALSE, rem |-> 0, ivl |-> 0,
     sigq |-> FALSE, ovr |-> 0, ovrLast |-> 0]

FreeHandles(k) == {h \in Handles : ~k[h].live}

\* the timer expires: the notification is queued, or counted as an overrun when
\* one is queued already; a periodic timer reloads, a one-shot one is unarmed
\* an expiration that unarms every timer, periodic or not
Expire_unarms(t) ==
    LET q == IF t.sigq THEN [t EXCEPT !.ovr = @ + 1] ELSE [t EXCEPT !.sigq = TRUE]
    IN  [q EXCEPT !.rem = 0, !.armed = FALSE]

\* an expiration that is never counted as an overrun
Expire_uncounted(t) ==
    LET q == [t EXCEPT !.sigq = TRUE]
    IN  IF t.ivl > 0
        THEN [q EXCEPT !.rem = t.ivl]
        ELSE [q EXCEPT !.rem = 0, !.armed = FALSE]

\* an expiration after which every timer is armed again for one tick
Expire_rearms(t) ==
    LET q == IF t.sigq THEN [t EXCEPT !.ovr = @ + 1] ELSE [t EXCEPT !.sigq = TRUE]
    IN  [q EXCEPT !.rem = 1]

Expire(t) ==
    LET q == IF t.sigq THEN [t EXCEPT !.ovr = @ + 1] ELSE [t EXCEPT !.sigq = TRUE]
    IN  IF t.ivl > 0
        THEN [q EXCEPT !.rem = t.ivl]
        ELSE [q EXCEPT !.rem = 0, !.armed = FALSE]

CurSetting(t) ==
    [it_interval |-> ToTimespec(t.ivl),
     it_value |-> ToTimespec(IF t.armed THEN t.rem ELSE 0)]

Failure(k, e) == [ret |-> -1, errno |-> e, kt |-> k, out |-> ZeroSpec, handle |-> NULL]

\* env.cap: the caller holds CAP_WAKE_ALARM; env.full: the kernel's timer table is full
timer_create(k, clockid, token, src, h, env) ==
    IF ~ValidClock(clockid) THEN Failure(k, "EINVAL")
    ELSE IF AlarmClock(clockid) /\ ~env.cap THEN Failure(k, "EPERM")
    ELSE IF env.full \/ h = NULL THEN Failure(k, "EAGAIN")
    ELSE [ret |-> 0, errno |-> "none", out |-> ZeroSpec, handle |-> h,
          kt |-> [k EXCEPT ![h] = [DeadTimer EXCEPT !.live = TRUE, !.src = src,
                                                     !.token = token]]]

\* a relative value that does not postpone an expiration already scheduled
Arm_keeps_earlier(t, flags, new, clk) ==
    LET v == ToTicks(new.it_value)
        i == ToTicks(new.it_interval)
        base == [t EXCEPT !.armed = FALSE, !.rem = 0, !.ivl = 0, !.ovr = 0,
                          !.ovrLast = 0]
    IN  IF v = 0 THEN base
        ELSE IF flags = TIMER_ABSTIME
             THEN IF v > clk
                  THEN [base EXCEPT !.armed = TRUE, !.rem = v - clk, !.ivl = i]
                  ELSE Expire([base EXCEPT !.armed = TRUE, !.ivl = i])
             ELSE [base EXCEPT !.armed = TRUE, !.ivl = i,
                               !.rem = IF t.armed /\ t.rem < v THEN t.rem ELSE v]

\* a zero value that leaves the timer as it was
Arm_zero_keeps(t, flags, new, clk) ==
    LET v == ToTicks(new.it_value)
        i == ToTicks(new.it_interval)
        base == [t EXCEPT !.armed = FALSE, !.rem = 0, !.ivl = 0, !.ovr = 0,
                          !.ovrLast = 0]
    IN  IF v = 0 THEN t
        ELSE IF flags = TIMER_ABSTIME
             THEN IF v > clk
                  THEN [base EXCEPT !.armed = TRUE, !.rem = v - clk, !.ivl = i]
                  ELSE Expire([base EXCEPT !.armed = TRUE, !.ivl = i])
             ELSE [base EXCEPT !.armed = TRUE, !.rem = v, !.ivl = i]

Arm(t, flags, new, clk) ==
    LET v == ToTicks(new.it_value)
        i == ToTicks(new.it_interval)
        base == [t EXCEPT !.armed = FALSE, !.rem = 0, !.ivl = 0, !.ovr = 0,
                          !.ovrLast = 0]
    IN  IF v = 0 THEN base
        ELSE IF flags = TIMER_ABSTIME
             THEN IF v > clk
                  THEN [base EXCEPT !.armed = TRUE, !.rem = v - clk, !.ivl = i]
                  ELSE Expire([base EXCEPT !.armed = TRUE, !.ivl = i])
             ELSE [base EXCEPT !.armed = TRUE, !.rem = v, !.ivl = i]

\* the new setting taken before its timespecs are validated
timer_settime_arms_first(k, h, flags, new, clk) ==
    IF h = NULL \/ ~k[h].live THEN Failure(k, "EINVAL")
    ELSE IF ~ValidTs(new.it_value) \/ ~ValidTs(new.it_interval)
         THEN [Failure(k, "EINVAL") EXCEPT !.kt = [k EXCEPT ![h] = Arm(@, flags, new, clk)]]
    ELSE [ret |-> 0, errno |-> "none", handle |-> h, out |-> CurSetting(k[h]),
          kt |-> [k EXCEPT ![h] = Arm(@, flags, new, clk)]]

timer_settime(k, h, flags, new, clk) ==
    IF h = NULL \/ ~k[h].live THEN Failure(k, "EINVAL")
    ELSE IF ~ValidTs(new.it_value) \/ ~ValidTs(new.it_interval) THEN Failure(k, "EINVAL")
    ELSE [ret |-> 0, errno |-> "none", handle |-> h, out |-> CurSetting(k[h]),
          kt |-> [k EXCEPT ![h] = Arm(@, flags, new, clk)]]

timer_gettime(k, h) ==
    IF h = NULL \/ ~k[h].live THEN Failure(k, "EINVAL")
    ELSE [ret |-> 0, errno |-> "none", handle |-> h, out |-> CurSetting(k[h]), kt |-> k]

timer_getoverrun(k, h) ==
    IF h = NULL \/ ~k[h].live THEN Failure(k, "EINVAL")
    ELSE [ret |-> k[h].ovrLast, errno |-> "none", handle |-> h, out |-> ZeroSpec, kt |-> k]

timer_delete(k, h) ==
    IF h = NULL \/ ~k[h].live THEN Failure(k, "EINVAL")
    ELSE [ret |-> 0, errno |-> "none", handle |-> h, out |-> ZeroSpec,
          kt |-> [k EXCEPT ![h] = DeadTimer]]

\* A handle whose timer was deleted is a dangling pointer into librt's heap: the
\* call either reaches the kernel with an id that names no timer (EINVAL) or
\* takes the process down. A handle that names a live timer runs on that timer.
NativeOutcomes(k, h) == IF h # NULL /\ ~k[h].live THEN {"run", "crash"} ELSE {"run"}

\* ---------------------------------------------------------------- Python layer
NoExc == "none"

\* restype of every binding: raises when the native call returned -1. The module
\* never imports os, so evaluating os.strerror raises NameError before the
\* OSError is built.
_error_handler(value) == IF value = -1 THEN "NameError" ELSE NoExc

\* What a call of the Python layer gives: the native timers after it, the
\* exception it raises (NoExc when it returns), errno of the native call, and
\* its return value: res for the precise forms, fres for the float forms, n for
\* getoverrun.
ZeroPair == <<ZeroTs, ZeroTs>>
Result(r, res) == [kt |-> r.kt, exc |-> _error_handler(r.ret), nerr |-> r.errno,
                   res |-> res, fres |-> <<0, 0>>, n |-> 0, handle |-> r.handle]

\* __init__: timerid starts NULL and is written by timer_create on success
PosixTimer__init__(k, self, clockid, a, h, env) ==
    Result(timer_create(k, clockid, a, self, h, env), ZeroPair)

\* the guard dropped: timer_delete is called on whatever timerid holds
DelGuardAlways(tid) == TRUE

\* line 171: if timerid:
DelGuard(tid) == tid # NULL


\* __del__: getattr(self, "timerid", NULL), then timer_delete when it is non-null;
\* self.timerid is left as it was
PosixTimer__del__(k, tid) ==
    IF DelGuard(tid)
    THEN LET r == Result(timer_delete(k, tid), ZeroPair)
         IN  [kt |-> r.kt, exc |-> r.exc, nerr |-> r.nerr, issued |-> TRUE]
    ELSE [kt |-> k, exc |-> NoExc, nerr |-> "none", issued |-> FALSE]

\* the result built in the order of the struct's fields: (interval, value)
set_precise_swapped(k, tid, value_sec_nsec, interval_sec_nsec, flags, clk) ==
    LET setval == [it_value |-> value_sec_nsec, it_interval |-> interval_sec_nsec]
        r == timer_settime(k, tid, flags, setval, clk)
    IN  Result(r, <<r.out.it_interval, r.out.it_value>>)

set_precise(k, tid, value_sec_nsec, interval_sec_nsec, flags, clk) ==
    LET setval == [it_value |-> value_sec_nsec, it_interval |-> interval_sec_nsec]
        r == timer_settime(k, tid, flags, setval, clk)
    IN  Result(r, <<r.out.it_value, r.out.it_interval>>)

set(k, tid, value, interval, flags, clk) ==
    LET r == set_precise(k, tid, _float_to_second_nsec(value),
                         _float_to_second_nsec(interval), flags, clk)
    IN  [r EXCEPT !.res = ZeroPair,
                  !.fres = <<_second_nsec_to_float(r.res[1]),
                             _second_nsec_to_float(r.res[2])>>]

\* a read that goes through timer_settime with a zero value
get_precise_resets(k, tid) == set_precise(k, tid, ZeroTs, ZeroTs, 0, 0)

\* the result built in the order of the struct's fields: (interval, value)
get_precise_swapped(k, tid) ==
    LET r == timer_gettime(k, tid)
    IN  Result(r, <<r.out.it_interval, r.out.it_value>>)

get_precise(k, tid) ==
    LET r == timer_gettime(k, tid)
    IN  Result(r, <<r.out.it_value, r.out.it_interval>>)

get(k, tid) ==
    LET r == get_precise(k, tid)
    IN  [r EXCEPT !.res = ZeroPair,
                  !.fres = <<_second_nsec_to_float(r.res[1]),
                             _second_nsec_to_float(r.res[2])>>]

getoverrun(k, tid) ==
    LET r == timer_getoverrun(k, tid)
    IN  [Result(r, ZeroPair) EXCEPT !.n = IF r.ret = -1 THEN 0 ELSE r.ret]

\* a disarm that only reads the timer
disarm_precise_reads(k, tid, clk) == get_precise(k, tid)

\* set_precise((0,0)) and set(0): interval and flags take their defaults
disarm_precise(k, tid, clk) == set_precise(k, tid, ZeroTs, ZeroTs, 0, clk)

\* a disarm that arms the timer for one tick
disarm_rearms(k, tid, clk) == set(k, tid, 1, 0, 0, clk)

disarm(k, tid, clk) == set(k, tid, 0, 0, 0, clk)

\* ---------------------------------------------------------------- inputs
PreciseValues == {ToTimespec(t) : t \in 0..MaxTicks} \cup {<<0, NSEC_PER_SEC>>}
PreciseIntervals == {ZeroTs, ToTimespec(1)}
FloatValues == (0..MaxTicks) \cup {-1}
FloatIntervals == {0, 1}
Flags == {0, TIMER_ABSTIME}
Envs == [cap : BOOLEAN, full : BOOLEAN]

\* ---------------------------------------------------------------- actions
\* hist when the last step was no call of the public interface
NoEvent ==
    [op |-> "none", obj |-> 0, val |-> ZeroTs, ivl |-> ZeroTs, flags |-> 0,
     res |-> ZeroPair, fres |-> <<0, 0>>, n |-> 0, exc |-> NoExc, nerr |-> "none",
     after |-> "none", was |-> ZeroPair, fwas |-> <<0, 0>>]

\* value and interval of the last set in ticks, the clock when it was made, how
\* many times in a row the same set was made (counted to 2), and whether a
\* notification was picked up since
NoLog == [val |-> 0, ivl |-> 0, at |-> 0, calls |-> 0, picked |-> FALSE]

Init ==
    /\ log = NoLog
    /\ objState = [o \in Objs |-> "unborn"]
    /\ timerid = [o \in Objs |-> NULL]
    /\ addr = [o \in Objs |-> 0]
    /\ explDel = [o \in Objs |-> 0]
    /\ delCount = [o \in Objs |-> 0]
    /\ cbCount = [o \in Objs |-> 0]
    /\ kt = [h \in Handles |-> DeadTimer]
    /\ inflight = [o \in Objs |-> 0]
    /\ now = 0
    /\ crashed = FALSE
    /\ hist = NoEvent

Usable(o) == ~crashed /\ objState[o] = "alive"

Event(op, o, val, ivl, flags, r) ==
    [op |-> op, obj |-> o, val |-> val, ivl |-> ivl, flags |-> flags, res |-> r.res,
     fres |-> r.fres, n |-> r.n, exc |-> r.exc, nerr |-> r.nerr, after |-> "none",
     was |-> ZeroPair, fwas |-> <<0, 0>>]

\* A get that is the step right after a successful set or disarm of the same
\* object is recorded with that call's name, arguments and result.
Arming == {"set_precise", "set", "disarm_precise", "disarm"}
Prior(o) == IF hist.op \in Arming /\ hist.obj = o /\ hist.exc = NoExc THEN hist
            ELSE NoEvent
GetEvent(op, o, r) ==
    [Event(op, o, Prior(o).val, Prior(o).ivl, Prior(o).flags, r)
        EXCEPT !.after = Prior(o).op, !.was = Prior(o).res, !.fwas = Prior(o).fres]

\* A disarm is recorded with the name and the result of a successful set or
\* disarm of the same object that was the step before it.
Following(e, o) ==
    [e EXCEPT !.after = Prior(o).op, !.was = Prior(o).res, !.fwas = Prior(o).fres]

\* the call returns or raises
Do(op, o, val, ivl, flags, r) ==
    /\ kt' = r.kt
    /\ hist' = Event(op, o, val, ivl, flags, r)
    /\ UNCHANGED crashed

\* the call takes the process down
Crash(op, o, val, ivl, flags) ==
    /\ crashed' = TRUE
    /\ hist' = [NoEvent EXCEPT !.op = op, !.obj = o, !.val = val, !.ivl = ivl,
                                !.flags = flags, !.exc = "crash"]
    /\ UNCHANGED kt

Occupants(a) == {p \in Objs : objState[p] \in {"alive", "failed"} /\ addr[p] = a}
FreeAddrs == {a \in Addrs : Occupants(a) = {}}

Create(o, clockid) ==
    /\ ~crashed
    /\ objState[o] = "unborn"
    /\ \A p \in Objs : p < o => objState[p] # "unborn"
    /\ \E a \in FreeAddrs, h \in FreeHandles(kt), env \in Envs :
         LET r == PosixTimer__init__(kt, o, clockid, a, h, env)
         IN  /\ addr' = [addr EXCEPT ![o] = a]
             /\ timerid' = [timerid EXCEPT ![o] = r.handle]
             /\ objState' = [objState EXCEPT ![o] = IF r.exc = NoExc THEN "alive"
                                                                      ELSE "failed"]
             /\ Do("create", o, ZeroTs, ZeroTs, clockid, r)
    /\ UNCHANGED <<explDel, delCount, cbCount, inflight, now>>

SetPrecise(o, v, i, f) ==
    /\ Usable(o)
    /\ \E oc \in NativeOutcomes(kt, timerid[o]) :
         IF oc = "crash" THEN Crash("set_precise", o, v, i, f)
         ELSE Do("set_precise", o, v, i, f, set_precise(kt, timerid[o], v, i, f, now))
    /\ UNCHANGED <<objState, timerid, addr, explDel, delCount, cbCount, inflight, now>>

Set(o, v, i, f) ==
    /\ Usable(o)
    /\ \E oc \in NativeOutcomes(kt, timerid[o]) :
         IF oc = "crash"
         THEN Crash("set", o, _float_to_second_nsec(v), _float_to_second_nsec(i), f)
         ELSE Do("set", o, _float_to_second_nsec(v), _float_to_second_nsec(i), f,
                 set(kt, timerid[o], v, i, f, now))
    /\ UNCHANGED <<objState, timerid, addr, explDel, delCount, cbCount, inflight, now>>

GetPrecise(o) ==
    /\ Usable(o)
    /\ \E oc \in NativeOutcomes(kt, timerid[o]) :
         IF oc = "crash" THEN Crash("get_precise", o, ZeroTs, ZeroTs, 0)
         ELSE LET r == get_precise(kt, timerid[o])
              IN  kt' = r.kt /\ hist' = GetEvent("get_precise", o, r) /\ UNCHANGED crashed
    /\ UNCHANGED <<objState, timerid, addr, explDel, delCount, cbCount, inflight, now>>

Get(o) ==
    /\ Usable(o)
    /\ \E oc \in NativeOutcomes(kt, timerid[o]) :
         IF oc = "crash" THEN Crash("get", o, ZeroTs, ZeroTs, 0)
         ELSE LET r == get(kt, timerid[o])
              IN  kt' = r.kt /\ hist' = GetEvent("get", o, r) /\ UNCHANGED crashed
    /\ UNCHANGED <<objState, timerid, addr, explDel, delCount, cbCount, inflight, now>>

GetOverrun(o) ==
    /\ Usable(o)
    /\ \E oc \in NativeOutcomes(kt, timerid[o]) :
         IF oc = "crash" THEN Crash("getoverrun", o, ZeroTs, ZeroTs, 0)
         ELSE Do("getoverrun", o, ZeroTs, ZeroTs, 0, getoverrun(kt, timerid[o]))
    /\ UNCHANGED <<objState, timerid, addr, explDel, delCount, cbCount, inflight, now>>

DisarmPrecise(o) ==
    /\ Usable(o)
    /\ \E oc \in NativeOutcomes(kt, timerid[o]) :
         IF oc = "crash" THEN Crash("disarm_precise", o, ZeroTs, ZeroTs, 0)
         ELSE LET r == disarm_precise(kt, timerid[o], now)
              IN  /\ kt' = r.kt
                  /\ hist' = Following(Event("disarm_precise", o, ZeroTs, ZeroTs, 0, r), o)
                  /\ UNCHANGED crashed
    /\ UNCHANGED <<objState, timerid, addr, explDel, delCount, cbCount, inflight, now>>

Disarm(o) ==
    /\ Usable(o)
    /\ \E oc \in NativeOutcomes(kt, timerid[o]) :
         IF oc = "crash" THEN Crash("disarm", o, ZeroTs, ZeroTs, 0)
         ELSE LET r == disarm(kt, timerid[o], now)
              IN  /\ kt' = r.kt
                  /\ hist' = Following(Event("disarm", o, ZeroTs, ZeroTs, 0, r), o)
                  /\ UNCHANGED crashed
    /\ UNCHANGED <<objState, timerid, addr, explDel, delCount, cbCount, inflight, now>>

\* foo.__del__() called by the program: the object stays alive, an exception
\* reaches the caller
ExplicitDel(o) ==
    /\ Usable(o)
    /\ explDel[o] < MaxExplicitDel
    /\ explDel' = [explDel EXCEPT ![o] = @ + 1]
    /\ \E oc \in NativeOutcomes(kt, timerid[o]) :
         IF oc = "crash"
         THEN /\ Crash("__del__", o, ZeroTs, ZeroTs, 0)
              /\ delCount' = [delCount EXCEPT ![o] = @ + 1]
         ELSE LET r == PosixTimer__del__(kt, timerid[o])
              IN  /\ kt' = r.kt
                  /\ hist' = [NoEvent EXCEPT !.op = "__del__", !.obj = o, !.exc = r.exc,
                                              !.nerr = r.nerr]
                  /\ delCount' = [delCount EXCEPT ![o] = IF r.issued THEN @ + 1 ELSE @]
                  /\ UNCHANGED crashed
    /\ UNCHANGED <<objState, timerid, addr, cbCount, inflight, now>>

\* the last reference goes away: the interpreter runs __del__, reports and
\* drops an exception it raises, and frees the object
AutoDel(o) ==
    /\ ~crashed
    /\ objState[o] \in {"alive", "failed"}
    /\ \E oc \in NativeOutcomes(kt, timerid[o]) :
         IF oc = "crash"
         THEN /\ Crash("del", o, ZeroTs, ZeroTs, 0)
              /\ delCount' = [delCount EXCEPT ![o] = @ + 1]
              /\ UNCHANGED objState
         ELSE LET r == PosixTimer__del__(kt, timerid[o])
              IN  /\ kt' = r.kt
                  /\ hist' = [NoEvent EXCEPT !.op = "del", !.obj = o, !.exc = r.exc,
                                              !.nerr = r.nerr]
                  /\ delCount' = [delCount EXCEPT ![o] = IF r.issued THEN @ + 1 ELSE @]
                  /\ objState' = [objState EXCEPT ![o] = "freed"]
                  /\ UNCHANGED crashed
    /\ UNCHANGED <<timerid, addr, explDel, cbCount, inflight, now>>

\* the clock advances by one tick
TickTimer(t) ==
    IF t.live /\ t.armed
    THEN IF t.rem = 1 THEN Expire(t) ELSE [t EXCEPT !.rem = @ - 1]
    ELSE t

Tick(horizon) ==
    /\ ~crashed
    /\ now < horizon
    /\ now' = now + 1
    /\ kt' = [h \in Handles |-> TickTimer(kt[h])]
    /\ hist' = NoEvent
    /\ UNCHANGED <<objState, timerid, addr, explDel, delCount, cbCount, inflight,
                   crashed>>

\* librt's helper thread takes the queued notification of a timer that is
\* still registered and spawns a thread to run sigev_notify_function on the
\* timer's sigev_value
PickUp(h) ==
    /\ ~crashed
    /\ kt[h].live
    /\ kt[h].sigq
    /\ inflight[kt[h].src] < MaxInflight
    /\ kt' = [kt EXCEPT ![h].sigq = FALSE, ![h].ovrLast = kt[h].ovr, ![h].ovr = 0]
    /\ inflight' = [inflight EXCEPT ![kt[h].src] = @ + 1]
    /\ hist' = NoEvent
    /\ UNCHANGED <<objState, timerid, addr, explDel, delCount, cbCount, now, crashed>>

\* callback_obj: cast sival_ptr back to a py_object and call its callback().
\* The address is dereferenced as it is: when no object lives there any more
\* the read is of freed memory.
DanglingOutcomes == {"crash", "zombie", "ignored"}

Dispatch(o) ==
    /\ ~crashed
    /\ inflight[o] > 0
    /\ inflight' = [inflight EXCEPT ![o] = @ - 1]
    /\ IF Occupants(addr[o]) # {}
       THEN \E p \in Occupants(addr[o]) :
              /\ cbCount[p] < MaxCb
              /\ cbCount' = [cbCount EXCEPT ![p] = @ + 1]
              /\ UNCHANGED crashed
       ELSE \E oc \in DanglingOutcomes :
              /\ oc = "zombie" => cbCount[o] < MaxCb
              /\ cbCount' = [cbCount EXCEPT ![o] = IF oc = "zombie" THEN @ + 1 ELSE @]
              /\ crashed' = (oc = "crash")
    /\ hist' = NoEvent
    /\ UNCHANGED <<objState, timerid, addr, explDel, delCount, kt, now>>

\* One timer object, every duration; the precise form with both flags, the
\* float form, which passes its flags on to the precise one, relative.
Next ==
    \/ \E c \in ClockInputs :
         Create(1, c) /\ UNCHANGED log
    \/ \E v \in PreciseValues, i \in PreciseIntervals, f \in Flags :
         SetPrecise(1, v, i, f) /\ UNCHANGED log
    \/ \E v \in FloatValues, i \in FloatIntervals :
         Set(1, v, i, 0) /\ UNCHANGED log
    \/ GetPrecise(1) /\ UNCHANGED log
    \/ Get(1) /\ UNCHANGED log
    \/ GetOverrun(1) /\ UNCHANGED log
    \/ DisarmPrecise(1) /\ UNCHANGED log
    \/ Disarm(1) /\ UNCHANGED log
    \/ ExplicitDel(1) /\ UNCHANGED log
    \/ AutoDel(1) /\ UNCHANGED log
    \/ Tick(MaxNow) /\ UNCHANGED log
    \/ \E h \in Handles :
         PickUp(h) /\ UNCHANGED log
    \/ Dispatch(1) /\ UNCHANGED log

Spec == Init /\ [][Next]_vars

\* Every timer object, one-shot relative armings of one tick.
NextObjs ==
    \/ \E o \in Objs, c \in ClockInputs :
         Create(o, c) /\ UNCHANGED log
    \/ \E o \in Objs, v \in {ZeroTs, ToTimespec(1)} :
         SetPrecise(o, v, ZeroTs, 0) /\ UNCHANGED log
    \/ \E o \in Objs, v \in {0, 1} :
         Set(o, v, 0, 0) /\ UNCHANGED log
    \/ \E o \in Objs :
         GetPrecise(o) /\ UNCHANGED log
    \/ \E o \in Objs :
         Get(o) /\ UNCHANGED log
    \/ \E o \in Objs :
         GetOverrun(o) /\ UNCHANGED log
    \/ \E o \in Objs :
         DisarmPrecise(o) /\ UNCHANGED log
    \/ \E o \in Objs :
         Disarm(o) /\ UNCHANGED log
    \/ \E o \in Objs :
         ExplicitDel(o) /\ UNCHANGED log
    \/ \E o \in Objs :
         AutoDel(o) /\ UNCHANGED log
    \/ Tick(1) /\ UNCHANGED log
    \/ \E h \in Handles :
         PickUp(h) /\ UNCHANGED log
    \/ \E o \in Objs :
         Dispatch(o) /\ UNCHANGED log

SpecObjs == Init /\ [][NextObjs]_vars

\* A caller that arms its timer when the timer is idle (unarmed, nothing of it
\* queued or in flight), relative to now, and then leaves it alone: it only
\* reads the timer while the clock advances and the notification threads are
\* scheduled.
Idle(o) ==
    /\ Usable(o)
    /\ timerid[o] # NULL
    /\ kt[timerid[o]].live
    /\ ~kt[timerid[o]].armed
    /\ ~kt[timerid[o]].sigq
    /\ inflight[o] = 0

WaitValues == {ToTimespec(t) : t \in 0..MaxTicks}
WaitIntervals == {ToTimespec(t) : t \in 0..MaxTicks}

Logged(v, i) ==
    [val |-> v, ivl |-> i, at |-> now, picked |-> FALSE,
     calls |-> IF /\ hist.op \in {"set_precise", "set"}
                  /\ log.val = v /\ log.ivl = i /\ log.at = now /\ ~log.picked
               THEN 2 ELSE 1]

NextWait ==
    \/ \E c \in ClockInputs : Create(1, c) /\ UNCHANGED log
    \/ \E v \in WaitValues, i \in WaitIntervals :
         Idle(1) /\ SetPrecise(1, v, i, 0) /\ log' = Logged(ToTicks(v), ToTicks(i))
    \/ \E v \in 0..MaxTicks, i \in FloatIntervals :
         Idle(1) /\ Set(1, v, i, 0) /\ log' = Logged(v, i)
    \/ GetPrecise(1) /\ UNCHANGED log
    \/ Get(1) /\ UNCHANGED log
    \/ GetOverrun(1) /\ UNCHANGED log
    \/ Tick(MaxWait) /\ UNCHANGED log
    \/ \E h \in Handles : PickUp(h) /\ log' = [log EXCEPT !.picked = TRUE]
    \/ Dispatch(1) /\ UNCHANGED log

\* the clock advances, and the operating system schedules librt's helper
\* thread and the notification threads it spawns
SpecWait ==
    /\ Init
    /\ [][NextWait]_vars
    /\ WF_vars(Tick(MaxWait) /\ UNCHANGED log)
    /\ WF_vars(\E h \in Handles : PickUp(h) /\ log' = [log EXCEPT !.picked = TRUE])
    /\ WF_vars(Dispatch(1) /\ UNCHANGED log)

\* ---------------------------------------------------------------- claims
TsLeq(a, b) == a[1] < b[1] \/ (a[1] = b[1] /\ a[2] <= b[2])
Gets == {"get_precise", "get"}
Sets == {"set_precise", "set"}

\* C1: once timer_delete has been issued from an object's __del__, the
\* callback of that object is not invoked again, also when a notification of
\* its timer was in flight at that moment.
C1_NoCallbackAfterDisposal ==
    [][\A o \in Objs : delCount[o] > 0 => cbCount'[o] = cbCount[o]]_vars

\* C2: a dispatch resolves its token to an object that is alive; it never
\* dereferences the token of an object that was destroyed.
C2_DispatchResolvesLiveObject ==
    [][\A o \in Objs : inflight'[o] < inflight[o] => objState[o] = "alive"]_vars

\* C3: timer_delete is issued exactly once on the handle of an object whose
\* creation succeeded: never twice, and once when the object is gone.
C3_DeleteIssuedExactlyOnce ==
    \A o \in Objs :
        timerid[o] # NULL =>
            /\ delCount[o] <= 1
            /\ objState[o] = "freed" => delCount[o] = 1

\* C4: disposing of an object that is disposed already raises nothing, issues
\* no further timer_delete and changes no native timer.
C4_DisposeIdempotent ==
    [][\A o \in Objs :
         (delCount[o] > 0 /\ hist'.obj = o /\ hist'.op \in {"__del__", "del"}) =>
             (hist'.exc = NoExc /\ delCount'[o] = delCount[o] /\ kt' = kt)]_vars

\* C5: after disposal, a set, get or getoverrun on the same object fails with
\* an invalid-handle error and changes no native timer.
C5_UseAfterDisposeFails ==
    [][\A o \in Objs :
         (delCount[o] > 0 /\ hist'.obj = o
            /\ hist'.op \in Sets \cup Gets \cup {"getoverrun"}) =>
             (hist'.exc = "OSError" /\ hist'.nerr = "EINVAL" /\ kt' = kt)]_vars

\* C6: a native call of create, set, get or getoverrun that returns -1 raises
\* the typed error that carries errno (OSError) to the caller.
C6_NativeFailureRaisesTypedError ==
    (hist.op \in {"create", "getoverrun"} \cup Sets \cup Gets /\ hist.nerr # "none") =>
        hist.exc = "OSError"

\* C7: an object whose creation failed has a null handle and no native timer,
\* never becomes usable, and its disposal issues no timer_delete.
NoTimerOf(o) == \A h \in Handles : kt[h].live => kt[h].src # o
C7_FailedCreateLeavesNothing ==
    [][\A o \in Objs :
         /\ objState'[o] = "failed" => (timerid'[o] = NULL /\ NoTimerOf(o)')
         /\ objState[o] = "failed" =>
              (objState'[o] \in {"failed", "freed"} /\ delCount'[o] = 0
                 /\ NoTimerOf(o)')]_vars

C7_Witness ==
    /\ hist.op = "del"
    /\ objState[hist.obj] = "freed"
    /\ timerid[hist.obj] = NULL
    /\ delCount[hist.obj] = 0

\* C8: a successful set, precise (relative or absolute) or float, returns the
\* remaining value and the interval the timer held before the call; the value
\* is zero when the timer was unarmed.
HeldValue(t) == IF t.armed THEN t.rem ELSE 0
C8_SetReturnsPreviousState ==
    [][/\ (hist'.op = "set_precise" /\ hist'.exc = NoExc) =>
            hist'.res = <<ToTimespec(HeldValue(kt[timerid[hist'.obj]])),
                          ToTimespec(kt[timerid[hist'.obj]].ivl)>>
       /\ (hist'.op = "set" /\ hist'.exc = NoExc) =>
            hist'.fres = <<HeldValue(kt[timerid[hist'.obj]]),
                          kt[timerid[hist'.obj]].ivl>>]_vars

C8_Witness ==
    /\ hist.op = "set_precise"
    /\ hist.exc = NoExc
    /\ hist.flags = TIMER_ABSTIME
    /\ hist.res[1] # ZeroTs
    /\ hist.res[2] # ZeroTs

\* C9 as stated: for every valid pair, a get right after a relative
\* set(value, interval) returns a value <= the armed value and the interval
\* that was set.
GetAfterSet ==
    hist.op \in Gets /\ hist.after \in Sets /\ hist.exc = NoExc /\ hist.flags = 0
GetWithinSetting ==
    /\ hist.op = "get_precise" =>
         (TsLeq(hist.res[1], hist.val) /\ hist.res[2] = hist.ivl)
    /\ hist.op = "get" =>
         /\ hist.fres[1] <= _second_nsec_to_float(hist.val)
         /\ hist.fres[2] = _second_nsec_to_float(hist.ivl)
C9_GetAfterSet == GetAfterSet => GetWithinSetting

\* C9 amended: the same for every pair whose value is not zero; a zero value
\* disarms the timer and clears its interval.
C9_GetAfterArmingSet ==
    /\ (GetAfterSet /\ hist.val # ZeroTs) => GetWithinSetting
    /\ (GetAfterSet /\ hist.val = ZeroTs /\ hist.op = "get_precise") =>
         hist.res = ZeroPair

C9_Witness ==
    /\ hist.op = "get_precise"
    /\ hist.after = "set_precise"
    /\ hist.exc = NoExc
    /\ hist.flags = 0
    /\ hist.val = ToTimespec(MaxTicks)
    /\ hist.ivl # ZeroTs
    /\ hist.res = <<hist.val, hist.ivl>>

\* C10: a get right after a disarm of a timer that is not disposed returns a
\* zero value and a zero interval, whatever the timer held before.
C10_GetAfterDisarmIsZero ==
    (hist.op \in Gets /\ hist.after \in {"disarm_precise", "disarm"}
       /\ hist.exc = NoExc) =>
        /\ hist.op = "get_precise" => hist.res = ZeroPair
        /\ hist.op = "get" => hist.fres = <<0, 0>>

\* the get follows the disarm of a timer that was armed and periodic
C10_Witness ==
    /\ hist.op = "get_precise"
    /\ hist.after = "disarm_precise"
    /\ hist.exc = NoExc
    /\ hist.was[1] # ZeroTs
    /\ hist.was[2] # ZeroTs
    /\ hist.res = ZeroPair

\* C11: a successful disarm, precise or float, leaves the native timers as
\* set with a zero value and a zero interval leaves them and returns what that
\* set returns; a disarm that is the step after a successful disarm of the same
\* object raises nothing and changes no native timer.
Disarms == {"disarm_precise", "disarm"}
C11_DisarmIsSetZeroAndIdempotent ==
    [][\A o \in Objs :
         (hist'.obj = o /\ hist'.op \in Disarms) =>
            /\ (hist'.op = "disarm_precise" /\ hist'.exc = NoExc) =>
                  /\ kt' = set_precise(kt, timerid[o], ZeroTs, ZeroTs, 0, now).kt
                  /\ hist'.res = set_precise(kt, timerid[o], ZeroTs, ZeroTs, 0, now).res
            /\ (hist'.op = "disarm" /\ hist'.exc = NoExc) =>
                  /\ kt' = set(kt, timerid[o], 0, 0, 0, now).kt
                  /\ hist'.fres = set(kt, timerid[o], 0, 0, 0, now).fres
            /\ (hist.obj = o /\ hist.op \in Disarms /\ hist.exc = NoExc) =>
                  (hist'.exc = NoExc /\ kt' = kt)]_vars

\* the second of two disarms in a row, the first one of an armed periodic timer
C11_Witness ==
    /\ hist.op = "disarm"
    /\ hist.after = "disarm"
    /\ hist.exc = NoExc
    /\ hist.fwas[1] > 0
    /\ hist.fwas[2] > 0
    /\ hist.fres = <<0, 0>>

\* C12: a timer armed when idle with a nonzero relative value and a zero
\* interval, and then left alone, has its callback invoked exactly once: the
\* callback is invoked after the value elapsed (given the time and the
\* invocation fit the bounds), at every moment at most one of "armed",
\* "notification queued", "notification in flight" holds for it and nothing is
\* counted as overrun, and once the callback ran the timer is idle and stays so
\* with no further callback; a get of the unarmed timer returns a zero value
\* and getoverrun returns 0.
TimerOf(o) == kt[timerid[o]]
OneShotArmed(c) ==
    /\ Usable(1) /\ timerid[1] # NULL
    /\ TimerOf(1).armed /\ TimerOf(1).ivl = 0
    /\ cbCount[1] = c
    /\ now + TimerOf(1).rem <= MaxWait
OneShot(o) == Usable(o) /\ timerid[o] # NULL /\ TimerOf(o).live /\ TimerOf(o).ivl = 0
Pending(o) ==
    (IF TimerOf(o).armed THEN 1 ELSE 0) + (IF TimerOf(o).sigq THEN 1 ELSE 0) + inflight[o]
C12_OneShotFiresExactlyOnce ==
    /\ \A c \in 0..(MaxCb - 1) : OneShotArmed(c) ~> (cbCount[1] = c + 1 /\ Idle(1))
    /\ [](OneShot(1) => (Pending(1) <= 1 /\ TimerOf(1).ovr = 0))
    /\ [][(OneShot(1) /\ cbCount'[1] # cbCount[1]) =>
             (cbCount'[1] = cbCount[1] + 1 /\ Idle(1)')]_vars
    /\ [][(Idle(1) /\ hist'.op \notin Sets) =>
             (Idle(1)' /\ cbCount'[1] = cbCount[1])]_vars
    /\ []((Idle(1) /\ OneShot(1) /\ hist.exc = NoExc) =>
             /\ hist.op = "get_precise" => hist.res[1] = ZeroTs
             /\ hist.op = "get" => hist.fres[1] = 0
             /\ hist.op = "getoverrun" => hist.n = 0)

\* getoverrun once the callback of a one-shot timer ran
C12_Witness ==
    /\ Idle(1)
    /\ OneShot(1)
    /\ cbCount[1] = 1
    /\ now = MaxTicks
    /\ hist.op = "getoverrun"
    /\ hist.exc = NoExc
    /\ hist.n = 0

\* C13: when a disarm or a disposal returns, the timer is not armed; a timer
\* that is not armed expires no more (nothing is queued and nothing counted as
\* overrun) until a set arms it; and an object with no armed timer, nothing
\* queued and nothing in flight stays so, its callback not invoked, until a
\* set: so a disarm of an armed timer of which nothing was queued or in flight
\* is followed by no callback.
Armed(t) == t.live /\ t.armed
Quiet(o) ==
    /\ timerid[o] # NULL
    /\ ~Armed(TimerOf(o))
    /\ ~TimerOf(o).sigq
    /\ inflight[o] = 0
Cancels == Disarms \cup {"__del__", "del"}
C13_NoExpirationAfterCancel ==
    [][\A o \in Objs :
         /\ (hist'.obj = o /\ hist'.op \in Cancels /\ hist'.exc = NoExc
                /\ timerid[o] # NULL) =>
               /\ ~Armed(TimerOf(o))'
               /\ (~TimerOf(o).sigq /\ inflight[o] = 0) => Quiet(o)'
         /\ hist'.op \notin Sets \cup {"create"} =>
               /\ \A h \in Handles :
                     ~Armed(kt[h]) =>
                        /\ ~Armed(kt'[h])
                        /\ kt'[h].sigq => kt[h].sigq
                        /\ kt'[h].ovr <= kt[h].ovr
               /\ Quiet(o) => (Quiet(o)' /\ cbCount'[o] = cbCount[o])]_vars

\* a disarm of a timer that was one tick from expiring, nothing of it queued
\* or in flight, no callback made so far
C13_Witness ==
    /\ hist.op = "disarm_precise"
    /\ hist.exc = NoExc
    /\ hist.res[1] = ToTimespec(1)
    /\ Quiet(1)
    /\ cbCount[1] = 0
    /\ now < MaxNow

\* C14 as stated: set(value=(0,0), interval=(1,0)) made twice in a row and then
\* more than 3 seconds with no notification picked up: a notification is
\* queued whose overrun count, the one getoverrun reports once it is picked
\* up, is at least 2.
OneSecond == ToTicks(<<1, 0>>)
ThreeSeconds == ToTicks(<<3, 0>>)
C14_ZeroValueSetsOverrun ==
    (/\ log.calls = 2 /\ log.val = 0 /\ log.ivl = OneSecond
     /\ ~log.picked /\ now - log.at > ThreeSeconds) =>
        (TimerOf(1).sigq /\ TimerOf(1).ovr >= 2)

\* C14 amended: a set with a zero value disarms whatever interval is passed:
\* after it the timer is idle with a zero interval and stays so, nothing is
\* queued however long no notification is picked up, and getoverrun returns
\* 0. A timer armed with a nonzero value v and a nonzero interval i queues a
\* notification when v has elapsed and counts one overrun for each further i
\* that elapses before the notification is picked up; the pick-up publishes
\* that count and getoverrun returns it: set(value=(1,0), interval=(1,0)) and
\* more than 3 seconds with no pick-up give at least 2.
C14_OverrunsOfArmedTimer ==
    /\ []((log.calls >= 1 /\ log.val = 0) =>
            /\ Idle(1)
            /\ TimerOf(1).ivl = 0 /\ TimerOf(1).ovr = 0 /\ TimerOf(1).ovrLast = 0
            /\ (hist.op = "getoverrun" /\ hist.exc = NoExc) => hist.n = 0)
    /\ []((log.calls >= 1 /\ log.val > 0 /\ log.ivl > 0 /\ ~log.picked) =>
            IF now - log.at < log.val
            THEN ~TimerOf(1).sigq /\ TimerOf(1).ovr = 0
            ELSE /\ TimerOf(1).sigq
                 /\ TimerOf(1).ovr = (now - log.at - log.val) \div log.ivl)
    /\ [][inflight'[1] > inflight[1] => TimerOf(1)'.ovrLast = TimerOf(1).ovr]_vars
    /\ []((hist.op = "getoverrun" /\ hist.exc = NoExc) => hist.n = TimerOf(1).ovrLast)

\* getoverrun after the first pick-up, made more than 3 seconds after
\* set(value=(1,0), interval=(1,0))
C14_Witness ==
    /\ hist.op = "getoverrun"
    /\ hist.exc = NoExc
    /\ hist.n >= 2
    /\ log.val = OneSecond
    /\ log.ivl = OneSecond
    /\ log.picked
    /\ cbCount[1] = 0
    /\ now - log.at > ThreeSeconds

\* C15: a get, precise or float, whether it returns or raises, leaves every
\* native timer (armed or not, remaining value, interval, queued notification,
\* overrun counts), the handle of the object, the notifications in flight and
\* the callbacks made as they were; on a handle that names a timer it does not
\* end the process.
C15_GetChangesNothing ==
    [][\A o \in Objs :
         (hist'.obj = o /\ hist'.op \in Gets) =>
            /\ UNCHANGED <<kt, timerid, inflight, cbCount, objState, delCount, now>>
            /\ (timerid[o] # NULL /\ TimerOf(o).live) => UNCHANGED crashed]_vars

\* a get of an armed periodic timer that has a notification queued
C15_Witness ==
    /\ hist.op = "get_precise"
    /\ hist.exc = NoExc
    /\ hist.res[1] # ZeroTs
    /\ hist.res[2] # ZeroTs
    /\ TimerOf(1).armed
    /\ TimerOf(1).sigq

\* C16: the dispatch of a notification of the timer created by object o invokes
\* the callback of o and of no other object, whatever creations and disposals
\* happen around it.
C16_CallbackOfOwnObjectOnly ==
    [][\A o \in Objs :
         inflight'[o] < inflight[o] =>
            \A p \in Objs \ {o} : cbCount'[p] = cbCount[p]]_vars

\* C17: no two objects that are alive hold the same handle of a live native
\* timer, and once an object has passed its handle to timer_delete it makes no
\* native call with that handle again: a later call of one of its methods
\* changes no native timer, issues no timer_delete and gets no errno back from
\* librt.
NativeCalls == Sets \cup Gets \cup Disarms \cup {"getoverrun", "__del__", "del"}
C17_HandleExclusivelyOwned ==
    /\ [](\A o \in Objs, p \in Objs :
             (/\ o # p /\ objState[o] = "alive" /\ objState[p] = "alive"
              /\ timerid[o] # NULL /\ TimerOf(o).live) => timerid[p] # timerid[o])
    /\ [][\A o \in Objs :
             (delCount[o] > 0 /\ hist'.obj = o /\ hist'.op \in NativeCalls) =>
                /\ kt' = kt
                /\ delCount'[o] = delCount[o]
                /\ hist'.nerr = "none"
                /\ hist'.exc # "crash"]_vars

\* C18: a successful set with a nonzero value on a timer that is armed leaves
\* the timer armed with the new value and the new interval, whatever remained
\* of the previous arming, and expires nothing at the call (relative value, or
\* absolute value after now); an absolute value not after now makes the
\* expiration of the new value happen at the call. Outside a set a timer
\* expires only in the tick in which its remaining value, counted down by one
\* per tick, reaches zero: so the expiration the previous arming had scheduled
\* does not occur and the next one is that of the new value and interval.
Expires(h) == (kt'[h].sigq /\ ~kt[h].sigq) \/ kt'[h].ovr > kt[h].ovr
Rearm(o) ==
    /\ hist'.obj = o /\ hist'.op \in Sets /\ hist'.exc = NoExc
    /\ hist'.val # ZeroTs
    /\ timerid[o] # NULL /\ Armed(TimerOf(o))
C18_RearmReplacesArming ==
    [][/\ \A o \in Objs :
            Rearm(o) =>
               LET h == timerid[o]
                   v == ToTicks(hist'.val)
                   i == ToTicks(hist'.ivl)
               IN  /\ kt'[h].ivl = i
                   /\ hist'.flags = 0 =>
                        (Armed(kt'[h]) /\ kt'[h].rem = v /\ ~Expires(h))
                   /\ (hist'.flags = TIMER_ABSTIME /\ v > now) =>
                        (Armed(kt'[h]) /\ kt'[h].rem = v - now /\ ~Expires(h))
                   /\ (hist'.flags = TIMER_ABSTIME /\ v <= now) =>
                        (kt'[h].sigq /\ kt'[h].armed = (i > 0))
       /\ hist'.op \notin Sets =>
            \A h \in Handles :
               /\ Expires(h) => (Armed(kt[h]) /\ kt[h].rem = 1 /\ now' = now + 1)
               /\ (Armed(kt[h]) /\ Armed(kt'[h]) /\ now' = now + 1 /\ kt[h].rem > 1) =>
                    kt'[h].rem = kt[h].rem - 1]_vars

\* a timer one tick from expiring is armed anew for the largest value
C18_Witness ==
    /\ hist.op = "set_precise"
    /\ hist.exc = NoExc
    /\ hist.flags = 0
    /\ hist.res[1] = ToTimespec(1)
    /\ hist.val = ToTimespec(MaxTicks)
    /\ Armed(TimerOf(1))
    /\ TimerOf(1).rem = MaxTicks
    /\ ~TimerOf(1).sigq

\* C19: a set or get that raises, on an object that was not disposed, changes
\* nothing: the native timers (armed or not, remaining value, interval), the
\* handle and the object are as before and the process lives; and the next
\* call on that object, a get, a set with valid durations, a disarm or a
\* disposal, succeeds.
Failed(e, o) ==
    e.obj = o /\ e.op \in Sets \cup Gets /\ e.exc # NoExc
C19_FailedCallLeavesTimer ==
    [][\A o \in Objs :
         delCount[o] = 0 =>
            /\ Failed(hist', o) =>
                  /\ hist'.exc # "crash"
                  /\ UNCHANGED <<kt, timerid, objState, crashed, inflight, cbCount>>
            /\ (/\ Failed(hist, o)
                /\ hist'.obj = o
                /\ \/ hist'.op \in Gets \cup Disarms \cup {"__del__", "del"}
                   \/ hist'.op \in Sets /\ ValidTs(hist'.val) /\ ValidTs(hist'.ivl)) =>
                  hist'.exc = NoExc]_vars

\* a set with an invalid timespec raised on an armed periodic timer
C19_Witness ==
    /\ hist.op = "set_precise"
    /\ hist.exc # NoExc
    /\ hist.nerr = "EINVAL"
    /\ delCount[1] = 0
    /\ Armed(TimerOf(1))
    /\ TimerOf(1).ivl > 0

\* C20: a timer armed when idle with a nonzero value and a nonzero interval,
\* and then left alone, stays armed with that interval through every
\* expiration; its callback is invoked again and again: whatever number of
\* invocations was reached, one more follows (given the time and the
\* invocation fit the bounds); and every get reports a nonzero remaining value
\* and the interval that was set.
Periodic(o) == Usable(o) /\ timerid[o] # NULL /\ Armed(TimerOf(o)) /\ TimerOf(o).ivl > 0
PeriodicArmed(c) ==
    /\ Periodic(1)
    /\ cbCount[1] = c
    /\ \/ now + TimerOf(1).rem <= MaxWait
       \/ TimerOf(1).sigq
       \/ inflight[1] > 0
C20_PeriodicKeepsFiring ==
    /\ \A c \in 0..(MaxCb - 1) : PeriodicArmed(c) ~> (cbCount[1] = c + 1)
    /\ [][Periodic(1) =>
             /\ Periodic(1)'
             /\ TimerOf(1)'.ivl = TimerOf(1).ivl
             /\ TimerOf(1)'.rem >= 1]_vars
    /\ []((log.calls >= 1 /\ log.val > 0 /\ log.ivl > 0) =>
             /\ Periodic(1)
             /\ TimerOf(1).ivl = log.ivl
             /\ (hist.op = "get_precise" /\ hist.exc = NoExc) =>
                   (hist.res[1] # ZeroTs /\ hist.res[2] = ToTimespec(log.ivl))
             /\ (hist.op = "get" /\ hist.exc = NoExc) =>
                   (hist.fres[1] > 0 /\ hist.fres[2] = log.ivl))

\* a get after the callback of a periodic timer was invoked MaxCb times
C20_Witness ==
    /\ hist.op = "get_precise"
    /\ hist.exc = NoExc
    /\ log.val > 0
    /\ log.ivl > 0
    /\ hist.res[2] = ToTimespec(log.ivl)
    /\ cbCount[1] = MaxCb
    /\ Periodic(1)

====
